---- MODULE Spec2Model ----
(***************************************************************************)
(* Model of athena_tools/athena_query_executor.py: the pipeline of main    *)
(* (normalise the output location, execute_athena_query, download the CSV, *)
(* catch-all error handler) and the pure string helpers parse_s3_uri and   *)
(* ensure_no_trailing_slash.  Strings are sequences of one-character       *)
(* strings, so concatenation, prefix tests, splitting and stripping are    *)
(* computed as Python computes them.                                       *)
(***************************************************************************)
EXTENDS Integers, Sequences, FiniteSets, TLC

VARIABLES
    \* ---- main / execute_athena_query / download_csv_from_s3 ----
    pc,                   \* position of the single thread of control
    args_output_location, \* args.output_location as given on the command line
    output_location,      \* execute_athena_query's parameter
    query_execution_id,   \* response['QueryExecutionId']
    status,               \* the loop variable of the poll loop
    response,             \* the last get_query_execution reply's Status
    execute_result,       \* "none" | "returned" | "raised"
    s3_uri,               \* the address execute_athena_query returned
    exc,                  \* the exception in flight or handled
    stdout,               \* the lines printed
    exit_code,            \* -1 while running, then the process's exit status
    nSession, nSubmit, nPoll, nSleep, nDownload, nTransfer,
    lastCall,             \* the last external call issued
    tick,                 \* flips at every external call
    sleep_secs,           \* the argument of the last time.sleep, 0 before
    \* ---- the string helpers applied to drawn inputs ----
    uri,                  \* the input string
    container, key, built,\* the parts uri was built from, when built = TRUE
    parsed,               \* outcome of parse_s3_uri(uri)
    norm_out,             \* ensure_no_trailing_slash(uri)
    norm_twice,           \* ensure_no_trailing_slash(norm_out)
    norm_slash,           \* ensure_no_trailing_slash(uri + "/")
    handle,               \* the execution id the address is derived for
    derived               \* f"{norm_out}/{handle}.csv"

pipeVars == <<pc, args_output_location, output_location, query_execution_id,
              status, response, execute_result, s3_uri, exc, stdout,
              exit_code, nSession, nSubmit, nPoll, nSleep, nDownload,
              nTransfer, lastCall, tick, sleep_secs>>
utilVars == <<uri, container, key, built, parsed, norm_out, norm_twice,
              norm_slash, handle, derived>>
vars == <<pipeVars, utilVars>>

----------------------------------------------------------------------------
(* Bounds *)

\* longest tail of drawn addresses, containers and keys
MaxLen == 2
\* the poll count is recorded up to this value and then stays there
MaxPollCount == 3

\* time.sleep(2)
PollInterval == 2

Min(a, b) == IF a < b THEN a ELSE b

Sep == "/"
Alphabet == {"b", Sep}
Strs(n) == UNION {[1..k -> Alphabet] : k \in 0..n}

----------------------------------------------------------------------------
(* Strings *)

S3Prefix == <<"s", "3", ":", "/", "/">>
CsvSuffix == <<".", "c", "s", "v">>

\* str.startswith
startswith(s, p) == Len(s) >= Len(p) /\ SubSeq(s, 1, Len(p)) = p

\* str.rstrip(ch) for a one-character argument: drops every trailing ch
RECURSIVE rstrip(_, _)
rstrip(s, ch) ==
    IF s # <<>> /\ s[Len(s)] = ch
    THEN rstrip(SubSeq(s, 1, Len(s) - 1), ch)
    ELSE s

\* str.split(sep, 1): one part when sep does not occur, else the text before
\* the first sep and the whole text after it
split1(s, sep) ==
    LET hits == {i \in 1..Len(s) : s[i] = sep}
    IN  IF hits = {}
        THEN <<s>>
        ELSE LET i == CHOOSE j \in hits : \A k \in hits : j <= k
             IN  <<SubSeq(s, 1, i - 1), SubSeq(s, i + 1, Len(s))>>

ensure_no_trailing_slash_one(s) ==
    IF s # <<>> /\ s[Len(s)] = Sep THEN SubSeq(s, 1, Len(s) - 1) ELSE s

ensure_no_trailing_slash(s) == rstrip(s, Sep)

----------------------------------------------------------------------------
(* Exceptions and outcomes *)

NoExc == [type |-> "none", msg |-> <<>>]
Raise(t, m) == [type |-> t, msg |-> m]

\* the classes `except Exception` catches among those the program can raise
ExceptionClasses ==
    {"Exception", "ValueError", "KeyError", "ClientError", "ProfileNotFound",
     "S3TransferError"}

NotParsed == [ran |-> FALSE, ok |-> FALSE, bucket |-> <<>>, key |-> <<>>,
              exc |-> NoExc]
ParseReturn(b, k) == [ran |-> TRUE, ok |-> TRUE, bucket |-> b, key |-> k,
                      exc |-> NoExc]
ParseRaise(e) == [ran |-> TRUE, ok |-> FALSE, bucket |-> <<>>, key |-> <<>>,
                  exc |-> e]

parse_s3_uri_nolen(s) ==
    IF ~startswith(s, S3Prefix)
    THEN ParseRaise(Raise("ValueError",
                          <<"Invalid S3 URI. Must start with 's3://'">>))
    ELSE LET parts == split1(SubSeq(s, 6, Len(s)), Sep)
         IN  IF Len(parts) # 2
             THEN ParseReturn(parts[1], <<>>)
             ELSE ParseReturn(parts[1], parts[2])

parse_s3_uri_last(s) ==
    IF ~startswith(s, S3Prefix)
    THEN ParseRaise(Raise("ValueError",
                          <<"Invalid S3 URI. Must start with 's3://'">>))
    ELSE LET r == SubSeq(s, 6, Len(s))
             hits == {i \in 1..Len(r) : r[i] = Sep}
         IN  IF hits = {}
             THEN ParseRaise(Raise("ValueError", <<"Invalid S3 URI format.">>))
             ELSE LET i == CHOOSE j \in hits : \A k \in hits : j >= k
                  IN  ParseReturn(SubSeq(r, 1, i - 1), SubSeq(r, i + 1, Len(r)))

parse_s3_uri(s) ==
    IF ~startswith(s, S3Prefix)
    THEN ParseRaise(Raise("ValueError",
                          <<"Invalid S3 URI. Must start with 's3://'">>))
    ELSE LET parts == split1(SubSeq(s, 6, Len(s)), Sep)
         IN  IF Len(parts) # 2
             THEN ParseRaise(Raise("ValueError", <<"Invalid S3 URI format.">>))
             ELSE ParseReturn(parts[1], parts[2])

\* f"{output_location}/{query_execution_id}.csv"
ResultAddress_nosep(loc, id) == loc \o id \o CsvSuffix

ResultAddress(loc, id) == loc \o <<Sep>> \o id \o CsvSuffix

----------------------------------------------------------------------------
(* Inputs of one run *)

\* the --output-location values drawn: with and without the s3:// prefix
Locations == {p \o t : p \in {<<>>, S3Prefix}, t \in Strs(MaxLen)}

\* the execution ids start_query_execution may return
Handles == {<<"h", "1">>, <<"h", "2">>}

NonTerminal == {"QUEUED", "RUNNING"}
Terminal == {"SUCCEEDED", "FAILED", "CANCELLED"}
States == NonTerminal \cup Terminal

Reasons == {"SYNTAX_ERROR", "Query cancelled by user"}

\* response['QueryExecution']['Status'] of get_query_execution: State is
\* always there, StateChangeReason only when HasReason
Replies ==
    {r \in [State : States, HasReason : BOOLEAN,
            StateChangeReason : Reasons \cup {""}] :
        r.HasReason <=> r.StateChangeReason # ""}

NoReply == [State |-> "", HasReason |-> FALSE, StateChangeReason |-> ""]

PipeIdle ==
    /\ pc = "idle"
    /\ args_output_location = <<>>
    /\ output_location = <<>>
    /\ query_execution_id = <<>>
    /\ status = ""
    /\ response = NoReply
    /\ execute_result = "none"
    /\ s3_uri = <<>>
    /\ exc = NoExc
    /\ stdout = <<>>
    /\ exit_code = -1
    /\ nSession = 0 /\ nSubmit = 0 /\ nPoll = 0 /\ nSleep = 0
    /\ nDownload = 0 /\ nTransfer = 0
    /\ lastCall = "none"
    /\ tick = FALSE
    /\ sleep_secs = 0

\* the value of a result variable before its function has been applied
Unset == <<"?">>

UtilIdle ==
    /\ uri = <<>>
    /\ container = <<>> /\ key = <<>> /\ built = FALSE
    /\ parsed = NotParsed
    /\ norm_out = Unset /\ norm_twice = Unset /\ norm_slash = Unset
    /\ handle = <<>>
    /\ derived = Unset

\* main has parsed its arguments and stands at the try block
Init ==
    /\ pc = "main"
    /\ args_output_location \in Locations
    /\ output_location = <<>>
    /\ query_execution_id = <<>>
    /\ status = ""
    /\ response = NoReply
    /\ execute_result = "none"
    /\ s3_uri = <<>>
    /\ exc = NoExc
    /\ stdout = <<>>
    /\ exit_code = -1
    /\ nSession = 0 /\ nSubmit = 0 /\ nPoll = 0 /\ nSleep = 0
    /\ nDownload = 0 /\ nTransfer = 0
    /\ lastCall = "none"
    /\ tick = FALSE
    /\ sleep_secs = 0
    /\ UtilIdle

----------------------------------------------------------------------------
(* main and execute_athena_query *)

\* an exception leaves execute_athena_query and reaches main's handler
ExecuteRaises(e) ==
    /\ exc' = e
    /\ execute_result' = "raised"
    /\ pc' = "except"

\* main calls execute_athena_query with the normalised output location; the
\* session and client are created, which fails for an unknown profile
CallExecute ==
    /\ pc = "main"
    /\ output_location' = ensure_no_trailing_slash(args_output_location)
    /\ nSession' = nSession + 1
    /\ \/ /\ pc' = "submit"
          /\ UNCHANGED <<exc, execute_result>>
       \/ ExecuteRaises(Raise("ProfileNotFound",
                              <<"The config profile could not be found">>))
    /\ UNCHANGED <<args_output_location, query_execution_id, status, response,
                   s3_uri, stdout, exit_code, nSubmit, nPoll, nSleep,
                   nDownload, nTransfer, lastCall, tick>>
    /\ UNCHANGED utilVars
    /\ UNCHANGED sleep_secs

\* start_query_execution, then status = 'RUNNING'
Submit ==
    /\ pc = "submit"
    /\ nSubmit' = nSubmit + 1
    /\ lastCall' = "submit"
    /\ tick' = ~tick
    /\ \/ /\ \E h \in Handles : query_execution_id' = h
          /\ status' = "RUNNING"
          /\ pc' = "poll"
          /\ UNCHANGED <<exc, execute_result>>
       \/ /\ ExecuteRaises(Raise("ClientError", <<"StartQueryExecution failed">>))
          /\ UNCHANGED <<query_execution_id, status>>
    /\ UNCHANGED <<args_output_location, output_location, response, s3_uri,
                   stdout, exit_code, nSession, nPoll, nSleep, nDownload,
                   nTransfer>>
    /\ UNCHANGED utilVars
    /\ UNCHANGED sleep_secs

\* a loop that gives up with a timeout at its third attempt
PollBounded ==
    /\ pc = "poll"
    /\ status \in NonTerminal
    /\ nPoll' = Min(nPoll + 1, MaxPollCount)
    /\ lastCall' = "poll"
    /\ tick' = ~tick
    /\ IF nPoll >= 2
       THEN /\ ExecuteRaises(Raise("TimeoutError", <<"Query timed out">>))
            /\ UNCHANGED <<response, status>>
       ELSE \/ /\ \E r \in Replies :
                    /\ response' = r
                    /\ status' = r.State
                    /\ pc' = IF r.State \in Terminal THEN "decide" ELSE "sleep"
               /\ UNCHANGED <<exc, execute_result>>
            \/ /\ ExecuteRaises(Raise("ClientError",
                                      <<"GetQueryExecution failed">>))
               /\ UNCHANGED <<response, status>>
    /\ UNCHANGED <<args_output_location, output_location, query_execution_id,
                   s3_uri, stdout, exit_code, nSession, nSubmit, nSleep,
                   nDownload, nTransfer>>
    /\ UNCHANGED utilVars
    /\ UNCHANGED sleep_secs

\* the loop body without its break: the sleep follows every reply
PollNoBreak ==
    /\ pc = "poll"
    /\ status \in NonTerminal
    /\ nPoll' = Min(nPoll + 1, MaxPollCount)
    /\ lastCall' = "poll"
    /\ tick' = ~tick
    /\ \/ /\ \E r \in Replies :
               /\ response' = r
               /\ status' = r.State
               /\ pc' = "sleep"
          /\ UNCHANGED <<exc, execute_result>>
       \/ /\ ExecuteRaises(Raise("ClientError", <<"GetQueryExecution failed">>))
          /\ UNCHANGED <<response, status>>
    /\ UNCHANGED <<args_output_location, output_location, query_execution_id,
                   s3_uri, stdout, exit_code, nSession, nSubmit, nSleep,
                   nDownload, nTransfer>>
    /\ UNCHANGED utilVars
    /\ UNCHANGED sleep_secs

\* one pass of the loop body up to the break: get_query_execution and the
\* test of the status it returned
Poll ==
    /\ pc = "poll"
    /\ status \in NonTerminal
    /\ nPoll' = Min(nPoll + 1, MaxPollCount)
    /\ lastCall' = "poll"
    /\ tick' = ~tick
    /\ \/ /\ \E r \in Replies :
               /\ response' = r
               /\ status' = r.State
               /\ pc' = IF r.State \in Terminal THEN "decide" ELSE "sleep"
          /\ UNCHANGED <<exc, execute_result>>
       \/ /\ ExecuteRaises(Raise("ClientError", <<"GetQueryExecution failed">>))
          /\ UNCHANGED <<response, status>>
    /\ UNCHANGED <<args_output_location, output_location, query_execution_id,
                   s3_uri, stdout, exit_code, nSession, nSubmit, nSleep,
                   nDownload, nTransfer>>
    /\ UNCHANGED utilVars
    /\ UNCHANGED sleep_secs

\* time.sleep(2), then the loop condition
Sleep ==
    /\ pc = "sleep"
    /\ nSleep' = Min(nSleep + 1, MaxPollCount)
    /\ sleep_secs' = PollInterval
    /\ lastCall' = "sleep"
    /\ tick' = ~tick
    /\ pc' = IF status \in NonTerminal THEN "poll" ELSE "decide"
    /\ UNCHANGED <<args_output_location, output_location, query_execution_id,
                   status, response, execute_result, s3_uri, exc, stdout,
                   exit_code, nSession, nSubmit, nPoll, nDownload, nTransfer>>
    /\ UNCHANGED utilVars

\* str(e) of the exception the else branch ends in: the f-string is
\* evaluated first, and its lookup of a missing key raises KeyError
QueryFailure(st, rsp) ==
    IF rsp.HasReason
    THEN Raise("Exception", <<"Query ", st, ": ", rsp.StateChangeReason>>)
    ELSE Raise("KeyError", <<"'StateChangeReason'">>)

\* after the loop: return the derived address, which main prints, or raise
Decide ==
    /\ pc = "decide"
    /\ IF status = "SUCCEEDED"
       THEN /\ s3_uri' = ResultAddress(output_location, query_execution_id)
            /\ execute_result' = "returned"
            /\ stdout' = Append(stdout,
                           <<"Query succeeded. Result saved in: ">> \o s3_uri')
            /\ pc' = "download"
            /\ UNCHANGED exc
       ELSE /\ ExecuteRaises(QueryFailure(status, response))
            /\ UNCHANGED <<s3_uri, stdout>>
    /\ UNCHANGED <<args_output_location, output_location, query_execution_id,
                   status, response, exit_code, nSession, nSubmit, nPoll,
                   nSleep, nDownload, nTransfer, lastCall, tick>>
    /\ UNCHANGED utilVars
    /\ UNCHANGED sleep_secs

----------------------------------------------------------------------------
(* download_csv_from_s3 and main's handler *)

\* main calls download_csv_from_s3: the address is parsed, then download_file
\* is issued once; main prints the success line when it returns
Download ==
    /\ pc = "download"
    /\ nDownload' = nDownload + 1
    /\ LET p == parse_s3_uri(s3_uri)
       IN  IF ~p.ok
           THEN /\ exc' = p.exc
                /\ pc' = "except"
                /\ UNCHANGED <<nTransfer, lastCall, tick, stdout, exit_code>>
           ELSE /\ nTransfer' = nTransfer + 1
                /\ lastCall' = "download"
                /\ tick' = ~tick
                /\ \/ /\ stdout' = Append(stdout,
                             <<"CSV downloaded successfully to: ", "out.csv">>)
                      /\ pc' = "exit"
                      /\ exit_code' = 0
                      /\ UNCHANGED exc
                   \/ /\ exc' \in {Raise("ClientError", <<"HeadObject failed">>),
                                   Raise("S3TransferError", <<"transfer failed">>)}
                      /\ pc' = "except"
                      /\ UNCHANGED <<stdout, exit_code>>
    /\ UNCHANGED <<args_output_location, output_location, query_execution_id,
                   status, response, execute_result, s3_uri, nSession,
                   nSubmit, nPoll, nSleep>>
    /\ UNCHANGED utilVars
    /\ UNCHANGED sleep_secs

\* what the interpreter does with exception e at main's except clause
Handled(e, out) ==
    IF e.type \in ExceptionClasses
    THEN [stdout |-> Append(out, <<"Error: ">> \o e.msg), exit_code |-> 0]
    ELSE [stdout |-> out, exit_code |-> 1]

\* a handler that lets everything but ValueError through
ExceptValueErrorOnly ==
    /\ pc = "except"
    /\ LET h == Handled(IF exc.type = "ValueError" THEN exc
                        ELSE Raise("uncaught", exc.msg), stdout)
       IN  /\ stdout' = h.stdout
           /\ exit_code' = h.exit_code
    /\ pc' = "exit"
    /\ UNCHANGED <<args_output_location, output_location, query_execution_id,
                   status, response, execute_result, s3_uri, exc, nSession,
                   nSubmit, nPoll, nSleep, nDownload, nTransfer, lastCall,
                   tick>>
    /\ UNCHANGED utilVars
    /\ UNCHANGED sleep_secs

\* a handler that prints and then goes on to the download
ExceptAndGoOn ==
    /\ pc = "except"
    /\ stdout' = Handled(exc, stdout).stdout
    /\ pc' = IF nDownload = 0 THEN "download" ELSE "exit"
    /\ exit_code' = IF nDownload = 0 THEN exit_code ELSE 0
    /\ UNCHANGED <<args_output_location, output_location, query_execution_id,
                   status, response, execute_result, s3_uri, exc, nSession,
                   nSubmit, nPoll, nSleep, nDownload, nTransfer, lastCall,
                   tick>>
    /\ UNCHANGED utilVars
    /\ UNCHANGED sleep_secs

\* except Exception as e: print(f"Error: {e}"), and main returns
Except ==
    /\ pc = "except"
    /\ LET h == Handled(exc, stdout)
       IN  /\ stdout' = h.stdout
           /\ exit_code' = h.exit_code
    /\ pc' = "exit"
    /\ UNCHANGED <<args_output_location, output_location, query_execution_id,
                   status, response, execute_result, s3_uri, exc, nSession,
                   nSubmit, nPoll, nSleep, nDownload, nTransfer, lastCall,
                   tick>>
    /\ UNCHANGED utilVars
    /\ UNCHANGED sleep_secs

Next ==
    \/ CallExecute
    \/ Submit
    \/ Poll
    \/ Sleep
    \/ Decide
    \/ Download
    \/ Except

Spec == Init /\ [][Next]_vars

\* the interpreter runs the one thread until main returns
LiveSpec == Init /\ [][Next]_vars /\ WF_vars(Next)

----------------------------------------------------------------------------
(* parse_s3_uri and ensure_no_trailing_slash on drawn inputs *)

\* strings with the prefix, with a damaged prefix and with none
UriInputs ==
    {p \o t : p \in {<<>>, S3Prefix, <<"s", "3", ":", "/">>},
              t \in Strs(MaxLen)}

\* the input is either any drawn string, or "s3://" + container + "/" + key
UtilInit ==
    /\ PipeIdle
    /\ built \in BOOLEAN
    /\ container \in Strs(MaxLen)
    /\ key \in Strs(MaxLen)
    /\ ~built => container = <<>> /\ key = <<>>
    /\ uri \in UriInputs \cup {S3Prefix \o container \o <<Sep>> \o key}
    /\ built <=> uri = S3Prefix \o container \o <<Sep>> \o key
    /\ parsed = NotParsed
    /\ norm_out = Unset /\ norm_twice = Unset /\ norm_slash = Unset
    /\ handle = <<>>
    /\ derived = Unset

Parse ==
    /\ ~parsed.ran
    /\ parsed' = parse_s3_uri(uri)
    /\ UNCHANGED <<uri, container, key, built, norm_out, norm_twice,
                   norm_slash, handle, derived>>
    /\ UNCHANGED pipeVars

Normalize ==
    /\ norm_out = Unset
    /\ norm_out' = ensure_no_trailing_slash(uri)
    /\ UNCHANGED <<uri, container, key, built, parsed, norm_twice,
                   norm_slash, handle, derived>>
    /\ UNCHANGED pipeVars

NormalizeAgain ==
    /\ norm_out # Unset
    /\ norm_twice = Unset
    /\ norm_twice' = ensure_no_trailing_slash(norm_out)
    /\ UNCHANGED <<uri, container, key, built, parsed, norm_out,
                   norm_slash, handle, derived>>
    /\ UNCHANGED pipeVars

NormalizeWithSlash ==
    /\ norm_slash = Unset
    /\ norm_slash' = ensure_no_trailing_slash(uri \o <<Sep>>)
    /\ UNCHANGED <<uri, container, key, built, parsed, norm_out,
                   norm_twice, handle, derived>>
    /\ UNCHANGED pipeVars

\* the address execute_athena_query derives from the normalised location
Derive ==
    /\ norm_out # Unset
    /\ derived = Unset
    /\ \E h \in Handles :
         /\ handle' = h
         /\ derived' = ResultAddress(norm_out, h)
    /\ UNCHANGED <<uri, container, key, built, parsed, norm_out,
                   norm_twice, norm_slash>>
    /\ UNCHANGED pipeVars

UtilNext ==
    \/ Parse
    \/ Normalize
    \/ NormalizeAgain
    \/ NormalizeWithSlash
    \/ Derive

UtilSpec == UtilInit /\ [][UtilNext]_vars

----------------------------------------------------------------------------
(* Properties *)

Range(s) == {s[i] : i \in 1..Len(s)}

ExecuteFinished == execute_result \in {"returned", "raised"}

\* execute_athena_query left through its else branch
FailedOrCancelled ==
    /\ execute_result = "raised"
    /\ response.State \in {"FAILED", "CANCELLED"}

\* C1: when the polled execution ends failed or cancelled, the error raised
\* is the query-execution error and its message names that terminal status,
\* and the service's reason when the reply carried one
C1_FailureCarriesStatus ==
    FailedOrCancelled =>
        /\ exc.type = "Exception"
        /\ response.State \in Range(exc.msg)
        /\ response.HasReason => response.StateChangeReason \in Range(exc.msg)

\* C2: execute returns exactly when the last reply was SUCCEEDED, and what it
\* returns is the output location, a separator, the handle and ".csv"
C2_ResultAddress ==
    /\ execute_result = "returned" =>
          /\ response.State = "SUCCEEDED"
          /\ s3_uri = output_location \o <<"/">> \o query_execution_id
                        \o <<".", "c", "s", "v">>
    /\ response.State = "SUCCEEDED" /\ pc # "decide" =>
          execute_result = "returned"
    /\ execute_result # "returned" => s3_uri = <<>>

C2_Witness ==
    /\ execute_result = "returned"
    /\ nSleep >= 1
    /\ s3_uri = <<"s", "3", ":", "/", "/", "b", "/", "h", "1",
                  ".", "c", "s", "v">>

\* C3: the download is attempted at most once, only after a reply of
\* SUCCEEDED, and never in a run whose execute raised
C3_DownloadOnlyAfterSuccess ==
    /\ nDownload <= 1
    /\ nTransfer <= 1
    /\ nDownload >= 1 \/ nTransfer >= 1 \/ lastCall = "download" =>
          /\ response.State = "SUCCEEDED"
          /\ execute_result = "returned"
    /\ execute_result = "raised" => nDownload = 0 /\ nTransfer = 0

C3_Witness == nTransfer = 1 /\ pc = "exit" /\ nSleep >= 1

ErrorLines == {i \in 1..Len(stdout) : stdout[i][1] = "Error: "}

\* C4: an exception raised anywhere in the pipeline goes straight to main's
\* handler, which prints the one line "Error: <message>"; the process then
\* ends with exit status 0
C4_ErrorsCaughtExitZero ==
    /\ exc # NoExc => pc \in {"except", "exit"}
    /\ pc = "exit" <=> exit_code = 0
    /\ pc # "exit" => exit_code = -1
    /\ pc = "exit" /\ exc # NoExc =>
          /\ Cardinality(ErrorLines) = 1
          /\ stdout[Len(stdout)] = <<"Error: ">> \o exc.msg
    /\ exc = NoExc => ErrorLines = {}

C4_Witness ==
    /\ pc = "exit"
    /\ exc.type = "ClientError"
    /\ nTransfer = 1

\* uri was built as "s3://" + container + "/" + key from non-empty parts
BuiltFromParts == built /\ container # <<>> /\ key # <<>>

\* C5 as stated: for every non-empty container and key the parse of
\* "s3://" + container + "/" + key is (container, key)
C5_RoundTripAnyContainer ==
    BuiltFromParts /\ parsed.ran =>
        parsed.ok /\ parsed.bucket = container /\ parsed.key = key

\* C5: for every non-empty container without a separator and every non-empty
\* key, the parse of "s3://" + container + "/" + key is (container, key)
C5_RoundTrip ==
    BuiltFromParts /\ Sep \notin Range(container) /\ parsed.ran =>
        parsed.ok /\ parsed.bucket = container /\ parsed.key = key

C5_Witness ==
    /\ BuiltFromParts
    /\ parsed.ran
    /\ container = <<"b">>
    /\ key = <<"b", "/">>

HasS3Prefix(s) ==
    /\ Len(s) >= 5
    /\ s[1] = "s" /\ s[2] = "3" /\ s[3] = ":" /\ s[4] = "/" /\ s[5] = "/"

NoSepAfterPrefix(s) == \A i \in 6..Len(s) : s[i] # "/"

\* C6: parse either returns a pair or raises the malformed-address error,
\* and it raises whenever the prefix is missing or nothing after the prefix
\* is a separator
C6_ParseTotalAndRejects ==
    parsed.ran =>
        /\ parsed.ok <=> parsed.exc = NoExc
        /\ ~parsed.ok => parsed.exc.type = "ValueError"
        /\ ~HasS3Prefix(uri) => ~parsed.ok
        /\ HasS3Prefix(uri) /\ NoSepAfterPrefix(uri) => ~parsed.ok

C6_Witness ==
    /\ parsed.ran
    /\ ~parsed.ok
    /\ uri = <<"s", "3", ":", "/", "/", "b", "b">>

\* C7: whenever parse returns a pair, neither component is empty
C7_NoEmptyComponent ==
    parsed.ran /\ parsed.ok => parsed.bucket # <<>> /\ parsed.key # <<>>

EndsInSep(s) == s # <<>> /\ s[Len(s)] = "/"

\* C8: normalising is idempotent, changes nothing that does not end in a
\* separator, gives the same value with a separator appended, never ends in a
\* separator, and the derived address has exactly one separator between the
\* location and the handle
C8_Normalization ==
    /\ norm_twice # Unset => norm_twice = norm_out
    /\ norm_out # Unset =>
          /\ ~EndsInSep(norm_out)
          /\ ~EndsInSep(uri) => norm_out = uri
    /\ norm_out # Unset /\ norm_slash # Unset => norm_slash = norm_out
    /\ derived # Unset =>
          LET n == Len(derived) - Len(handle) - 4
          IN  /\ derived[n] = "/"
              /\ SubSeq(derived, n + 1, n + Len(handle)) = handle
              /\ n > 1 => derived[n - 1] # "/"

C8_Witness ==
    /\ uri = <<"s", "3", ":", "/", "/", "b", "/">>
    /\ norm_twice # Unset
    /\ norm_slash # Unset
    /\ derived # Unset

\* the step issues a status poll
PollStep == tick' # tick /\ lastCall' = "poll"

\* the step sleeps
SleepStep == tick' # tick /\ lastCall' = "sleep"

\* when a poll and when a sleep may happen
C9_Order ==
    /\ [][PollStep => /\ lastCall \in {"submit", "sleep"}
                      /\ response.State \notin Terminal
                      /\ nSubmit = 1]_vars
    /\ [][SleepStep => /\ sleep_secs' = 2
                       /\ lastCall = "poll"
                       /\ response.State \in NonTerminal
                       /\ exc = NoExc]_vars
    /\ [](lastCall = "poll" /\ response.State \in NonTerminal /\ exc = NoExc
            => pc = "sleep")

\* C9 as stated: every run of execute has exactly one submission and at
\* least one status poll, with the sleeps between the polls
C9_OneSubmitSomePolls ==
    /\ [](ExecuteFinished => nSubmit = 1 /\ nPoll >= 1)
    /\ C9_Order

\* C9: every run of execute has at most one submission; when it returned a
\* handle, at least one status poll follows; a sleep follows each poll that
\* returned QUEUED or RUNNING and precedes the next poll, and nothing is
\* polled after a terminal reply
C9_PollProtocol ==
    /\ [](nSubmit <= 1)
    /\ [](query_execution_id # <<>> => nSubmit = 1)
    /\ [](ExecuteFinished /\ query_execution_id # <<>> => nPoll >= 1)
    /\ [](nPoll >= 1 => query_execution_id # <<>>)
    /\ C9_Order

C9_Witness ==
    /\ ExecuteFinished
    /\ nPoll = 3
    /\ nSleep = 2
    /\ response.State = "CANCELLED"

\* C10: once a terminal status has been reported execute finishes; it ends
\* only by a terminal status or by a call that raised, however many polls
\* there were; a sleep is always followed by another poll; and a call that
\* raised ends execute with no further call
C10_UnboundedRetryFree ==
    /\ (status \in Terminal) ~> ExecuteFinished
    /\ (pc = "sleep") ~> (pc = "poll")
    /\ [](execute_result = "raised" =>
            \/ response.State \in {"FAILED", "CANCELLED"}
            \/ exc.type \in {"ProfileNotFound", "ClientError"})
    /\ [](status \in NonTerminal /\ exc = NoExc => pc \in {"poll", "sleep"})
    /\ [][exc = NoExc /\ exc' # NoExc /\ execute_result = "none"
            => execute_result' = "raised"]_vars
    /\ [][execute_result = "raised" => tick' = tick]_vars

C10_Witness ==
    /\ nPoll = MaxPollCount
    /\ nSleep = MaxPollCount
    /\ pc = "poll"

====
